---- MODULE Spec2Model ----
(***************************************************************************)
(* A model of ironic_netconfig.py: the deploy step write_netconfig, the    *)
(* generator context manager partition_with_path it uses, and the helpers  *)
(* find_device_by_mac, port_to_config and partition_index_to_name.         *)
(*                                                                         *)
(* Strings whose characters the code inspects (MAC addresses, device and   *)
(* file names) are sequences of one-character strings.                     *)
(*                                                                         *)
(* Spec is an invocation of write_netconfig or of another user of          *)
(* partition_with_path, and SpecFair the same with the invocation's steps  *)
(* taken fairly. SpecScan is partition_with_path on larger disks, SpecFind *)
(* is find_device_by_mac and SpecName is partition_index_to_name, each     *)
(* called on its own over all of its bounded inputs.                       *)
(***************************************************************************)
EXTENDS Integers, Sequences, FiniteSets, TLC

VARIABLES
    caller,     \* who entered `with partition_with_path(...)`: write_netconfig or other code
    ports,      \* write_netconfig's argument: a sequence of [address, netconfig]
    ifaces,     \* what netifaces reports now: a sequence of [name, addrs]
    root_dev,   \* what get_os_install_device returns
    disk,       \* the partitions of root_dev: [number, flags, mountable, target]
    files,      \* per partition, the files of <partition>/etc/sysconfig/network-scripts
    pc,         \* where the invocation stands
    phase,      \* the phase the invocation is in, or failed in
    v,          \* write_netconfig: index of the next port to render
    configs,    \* write_netconfig: the rendered configs, in port order
    k,          \* partition_with_path: index of the partition the loop is at
    mounted,    \* device paths that are mounted now
    path,       \* index of the partition whose conf_path the caller holds, 0: none
    listing,    \* write_netconfig: names os.listdir returned and the purge has not visited
    w,          \* write_netconfig: index of the next port to write
    bodyError,  \* the error the with-body raised, "none" if it raised none
    thrown,     \* TRUE once an error was thrown into the generator at its yield
    error,      \* the error the invocation ended with, "none" if none
    attempts,   \* history: the device paths mount was attempted on, in order
    yields,     \* history: the partitions whose conf_path the generator yielded, in order
    written,    \* history: the file names the write step wrote, in port order
    purgeFailed,\* history: the names whose unlink failed during the purge
    call,       \* a helper called on its own: its name and arguments, <<>> if none
    ret         \* what that helper returned, <<>> before it returns

vars == <<caller, ports, ifaces, root_dev, disk, files, pc, phase, v,
          configs, k, mounted, path, listing, w, bodyError, thrown, error,
          attempts, yields, written, purgeFailed, call, ret>>

\* ------------------------------------------------------------------ bounds

MaxPorts == 2
MaxParts == 2

\* The partitions of a disk when partition_with_path is studied on its own.
MaxScanParts == 3

\* The interfaces, and the AF_LINK addresses of one interface, when
\* find_device_by_mac is studied on its own.
MaxIfs == 2
MaxAddrs == 2

\* The greatest partition index when partition_index_to_name is studied on
\* its own.
MaxIndex == 120

\* ------------------------------------------------------- strings and helpers

Range(s) == {s[i] : i \in DOMAIN s}

SeqsUpTo(S, n) == UNION {[1..m -> S] : m \in 0..n}

\* str.lower() on one character, for the characters MAC addresses are made of.
LowerChar(c) ==
    CASE c = "A" -> "a"
      [] c = "B" -> "b"
      [] c = "C" -> "c"
      [] c = "D" -> "d"
      [] c = "E" -> "e"
      [] c = "F" -> "f"
      [] OTHER -> c

\* A comparison that keeps the case of both sides.
SameCase(s) == s

\* str.lower()
Lower(s) == [i \in DOMAIN s |-> LowerChar(s[i])]

\* str.startswith(prefix)
StartsWith(s, prefix) ==
    /\ Len(s) >= Len(prefix)
    /\ SubSeq(s, 1, Len(prefix)) = prefix

\* A test that looks for sub at the start of s only.
AtStart(s, sub) == SubSeq(s, 1, Len(sub)) = sub

\* `sub in s` for strings
Contains(s, sub) ==
    \E i \in 0..(Len(s) - Len(sub)) : SubSeq(s, i + 1, i + Len(sub)) = sub

Digit(d) ==
    CASE d = 0 -> "0" [] d = 1 -> "1" [] d = 2 -> "2" [] d = 3 -> "3"
      [] d = 4 -> "4" [] d = 5 -> "5" [] d = 6 -> "6" [] d = 7 -> "7"
      [] d = 8 -> "8" [] d = 9 -> "9"

RECURSIVE Str(_)
\* str(index) of a non-negative integer
Str(n) == IF n < 10 THEN <<Digit(n)>> ELSE Str(n \div 10) \o <<Digit(n % 10)>>

nvme == <<"n", "v", "m", "e">>
ifcfg == <<"i", "f", "c", "f", "g", "-">>

\* ------------------------------------------------------------ the inputs

macA1 == <<"A", "A", ":", "0", "1">>
maca1 == <<"a", "a", ":", "0", "1">>
macb2 == <<"b", "b", ":", "0", "2">>
macB2 == <<"B", "B", ":", "0", "2">>

eth0 == <<"e", "t", "h", "0">>
eth1 == <<"e", "t", "h", "1">>

\* The interface enumerations netifaces may report: name and AF_LINK addresses.
IfaceConfigs ==
    { << [name |-> eth0, addrs |-> <<maca1>>], [name |-> eth1, addrs |-> <<macB2>>] >>,
      << [name |-> eth1, addrs |-> <<maca1>>] >> }

eth2 == <<"e", "t", "h", "2">>

\* The enumerations when find_device_by_mac is studied on its own: up to MaxIfs
\* interfaces of distinct names, each with up to MaxAddrs AF_LINK addresses
\* (none where the interface has no AF_LINK entry).
FindIfaces ==
    {ifs \in SeqsUpTo([name : {eth0, eth1, eth2},
                       addrs : SeqsUpTo({maca1, macB2}, MaxAddrs)], MaxIfs) :
        \A i, j \in DOMAIN ifs : ifs[i].name = ifs[j].name => i = j}

\* The MACs it is asked for.
FindMacs == {macA1, maca1, macb2}

\* port['extra']['netconfig']: the address octets and the prefix length after "/".
cidrGood == <<192, 168, 1, 10, 24>>
cidrBad == <<10, 0, 0, 5, 33>>

PortChoices ==
    { [address |-> macA1, netconfig |-> cidrGood],
      [address |-> macb2, netconfig |-> cidrGood],
      [address |-> macA1, netconfig |-> cidrBad] }

sda == <<"/", "d", "e", "v", "/", "s", "d", "a">>

nvme0n1 == <<"/", "d", "e", "v", "/", "n", "v", "m", "e", "0", "n", "1">>

mmcblk0 == <<"/", "d", "e", "v", "/", "m", "m", "c", "b", "l", "k", "0">>
nvm0 == <<"/", "d", "e", "v", "/", "n", "v", "m", "0">>

\* The devices partition_index_to_name is called with when studied on its own.
NameDevs == {sda, nvme0n1, mmcblk0, nvm0}

\* What get_os_install_device may return.
RootDevs == {sda}

\* What it may return when partition_with_path is studied on its own.
ScanRootDevs == {sda, nvme0n1}

\* What a partition can be: its flags, whether mount succeeds on it, and what
\* etc/sysconfig/network-scripts is on it ("dir", "file" or "none").
PartKinds ==
    { [flags |-> {}, mountable |-> TRUE, target |-> "dir"],
      [flags |-> {"boot"}, mountable |-> TRUE, target |-> "file"],
      [flags |-> {}, mountable |-> FALSE, target |-> "dir"],
      [flags |-> {"boot", "esp"}, mountable |-> TRUE, target |-> "dir"],
      [flags |-> {"lvm"}, mountable |-> TRUE, target |-> "dir"] }

\* ------------------------------------------------------- the pure functions

NoDevice == <<>>

\* The interfaces, in enumeration order, one of whose AF_LINK addresses is mac
\* when both are lower-cased.
MatchingDevices(mac, ifs) ==
    {i \in DOMAIN ifs : Lower(mac) \in {Lower(a) : a \in Range(ifs[i].addrs)}}

Min(S) == CHOOSE x \in S : \A y \in S : x <= y

Max(S) == CHOOSE x \in S : \A y \in S : x >= y

\* find_device_by_mac: the name of the first matching interface, NoDevice
\* where the code raises RuntimeError("Device with MAC ... was not found").
find_device_by_mac(mac, ifs) ==
    IF MatchingDevices(mac, ifs) = {}
    THEN NoDevice
    ELSE ifs[Min(MatchingDevices(mac, ifs))].name

\* Whether ipaddress.ip_interface accepts the address: four octets and an
\* optional prefix length of at most 32.
ValidInterface(nc) ==
    /\ Len(nc) \in {4, 5}
    /\ \A i \in 1..4 : nc[i] \in 0..255
    /\ Len(nc) = 5 => nc[5] \in 0..32

PrefixLen(nc) == IF Len(nc) = 5 THEN nc[5] ELSE 32

\* The bits of the netmask that fall into octet i (1..4) of a prefix length.
OctetBits(prefixlen, i) ==
    IF prefixlen >= 8 * i THEN 8
    ELSE IF prefixlen <= 8 * (i - 1) THEN 0
    ELSE prefixlen - 8 * (i - 1)

\* addr.network.netmask
Netmask(nc) == [i \in 1..4 |-> 256 - 2 ^ (8 - OctetBits(PrefixLen(nc), i))]

\* TEMPLATE.format(device=..., mac=..., ip=..., netmask=...)
TEMPLATE(device, mac, ip, netmask) ==
    [DEVICE |-> device, BOOTPROTO |-> "", HWADDR |-> mac, IPADDR |-> ip,
     NETMASK |-> netmask, ONBOOT |-> "yes", NM_CONTROLLED |-> "yes"]

oldEth0 == ifcfg \o eth0
oldEth9 == ifcfg \o <<"e", "t", "h", "9">>
otherFile == <<"i", "f", "u", "p">>

\* The text of a file the installed image came with.
installed ==
    TEMPLATE(<<"l", "o">>, <<>>, <<127, 0, 0, 1>>, <<255, 0, 0, 0>>)

\* The files of etc/sysconfig/network-scripts on a freshly installed partition.
InitialFiles(part) ==
    IF part.target = "dir"
    THEN [n \in {oldEth0, oldEth9, otherFile} |-> installed]
    ELSE <<>>

\* port_to_config: the address is parsed first, then the device is resolved.
port_to_config(port, ifs) ==
    IF ~ValidInterface(port.netconfig)
    THEN [error |-> "ValueError"]
    ELSE IF find_device_by_mac(port.address, ifs) = NoDevice
    THEN [error |-> "DeviceNotFound"]
    ELSE [error |-> "none",
          text |-> TEMPLATE(find_device_by_mac(port.address, ifs), port.address,
                            SubSeq(port.netconfig, 1, 4), Netmask(port.netconfig))]

\* partition_index_to_name
partition_index_to_name(device, index) ==
    device \o (IF Contains(device, nvme) THEN <<"p">> ELSE <<>>) \o Str(index)

\* The skip test without the lvm flag.
IsSkippedEspOnly(part) == "esp" \in part.flags

\* The skip test without the esp flag.
IsSkippedLvmOnly(part) == "lvm" \in part.flags

\* The test that makes the loop of partition_with_path skip a partition.
IsSkipped(part) == "esp" \in part.flags \/ "lvm" \in part.flags

\* An except clause that catches every error.
CatchesAll(err) == TRUE

\* An except clause that also catches OSError.
CatchesOSError(err) == err \in {"ProcessExecutionError", "OSError"}

\* No except clause: a failed mount leaves the generator.
CatchesNothing(err) == FALSE

\* The except clause around the mount of partition_with_path.
Catches(err) == err = "ProcessExecutionError"

\* A mount that is not released when its block is left.
MountedExitLeak(m, dev) == m

\* Leaving `with utils.mounted(part_path)`: the partition is unmounted.
MountedExit(m, dev) == m \ {dev}

\* Rendering put off: the configs are a generator, not a list.
ValidationLazy == TRUE

\* The list comprehension of write_netconfig has rendered every port.
ValidationComplete == v > Len(ports)

part_path == partition_index_to_name(root_dev, disk[k].number)

Untouched(i) == files[i] = InitialFiles(disk[i])

\* ------------------------------------------------------------ the state

\* The partitions disk_utils.list_partitions reports, numbered in listing order.
Disks ==
    {[i \in DOMAIN ks |-> [number |-> i, flags |-> ks[i].flags,
                           mountable |-> ks[i].mountable, target |-> ks[i].target]] :
        ks \in SeqsUpTo(PartKinds, MaxParts)}

\* The same, for up to MaxScanParts partitions.
ScanDisks ==
    {[i \in DOMAIN ks |-> [number |-> i, flags |-> ks[i].flags,
                           mountable |-> ks[i].mountable, target |-> ks[i].target]] :
        ks \in SeqsUpTo(PartKinds, MaxScanParts)}

\* The errors the body of a `with partition_with_path(...)` can raise.
BodyErrors == {"OSError", "RuntimeError", "ProcessExecutionError"}

Init ==
    /\ caller \in {"write_netconfig", "other"}
    /\ ports \in (IF caller = "write_netconfig"
                  THEN SeqsUpTo(PortChoices, MaxPorts) ELSE {<<>>})
    /\ ifaces \in (IF caller = "write_netconfig"
                   THEN IfaceConfigs ELSE {<<>>})
    /\ root_dev \in RootDevs
    /\ disk \in Disks
    /\ files = [i \in DOMAIN disk |-> InitialFiles(disk[i])]
    /\ pc = IF caller = "write_netconfig" THEN "validate" ELSE "enter"
    /\ phase = IF caller = "write_netconfig" THEN "Validating" ELSE "Locating"
    /\ v = 1
    /\ configs = <<>>
    /\ k = 0
    /\ mounted = {}
    /\ path = 0
    /\ listing = {}
    /\ w = 0
    /\ bodyError = "none"
    /\ thrown = FALSE
    /\ error = "none"
    /\ attempts = <<>>
    /\ yields = <<>>
    /\ written = <<>>
    /\ purgeFailed = {}
    /\ call = <<>>
    /\ ret = <<>>

\* netifaces reports another set of interfaces, any number of times. The code
\* reads the interfaces only in find_device_by_mac, so a change matters only
\* before such a read, and one before the first read is another initial state.
InterfacesChange ==
    /\ caller = "write_netconfig"
    /\ \/ pc = "validate" /\ 1 < v /\ v <= Len(ports)
       \/ pc = "write"
    /\ ifaces' \in IfaceConfigs \ {ifaces}
    /\ UNCHANGED <<caller, ports, root_dev, disk, files, pc, phase, v, configs, k,
                   mounted, path, listing, w, bodyError, thrown, error, attempts,
                   yields, written,
                   purgeFailed, call, ret>>

\* write_netconfig, one element of the list comprehension: port_to_config(port).
RenderPort ==
    /\ pc = "validate"
    /\ v <= Len(ports)
    /\ LET r == port_to_config(ports[v], ifaces) IN
        IF r.error = "none"
        THEN /\ configs' = Append(configs, [port |-> ports[v], config |-> r.text])
             /\ v' = v + 1
             /\ UNCHANGED <<pc, error>>
        ELSE /\ error' = r.error
             /\ pc' = "done"
             /\ UNCHANGED <<configs, v>>
    /\ UNCHANGED <<caller, ports, ifaces, root_dev, disk, files, phase, k,
                   mounted, path, listing, w, bodyError, thrown, attempts, yields,
                   written,
                   purgeFailed, call, ret>>

\* A loop that stays at the partition it is at.
SameIndex(i) == i

\* `for part in partitions`: the loop goes on to the next partition.
NextIndex(i) == i + 1

\* Entering `with partition_with_path(PATH)`: the generator runs to its loop.
EnterPartitionWithPath ==
    /\ \/ pc = "validate" /\ ValidationComplete
       \/ pc = "enter"
    /\ pc' = "loop"
    /\ phase' = "Locating"
    /\ k' = 1
    /\ UNCHANGED <<caller, ports, ifaces, root_dev, disk, files, v, configs,
                   mounted, path, listing, w, bodyError, thrown, error, attempts,
                   yields, written,
                   purgeFailed, call, ret>>

\* partition_with_path: a partition flagged esp or lvm is skipped.
SkipPartition ==
    /\ pc = "loop"
    /\ k <= Len(disk)
    /\ IsSkipped(disk[k])
    /\ k' = NextIndex(k)
    /\ UNCHANGED <<caller, ports, ifaces, root_dev, disk, files, pc, phase,
                   v, configs, mounted, path, listing, w, bodyError, thrown, error,
                   attempts, yields, written,
                   purgeFailed, call, ret>>

\* partition_with_path: utils.mounted(part_path) is entered. A failed mount is
\* a ProcessExecutionError, which the except clause turns into a warning.
MountPartition ==
    /\ pc = "loop"
    /\ k <= Len(disk)
    /\ ~IsSkipped(disk[k])
    /\ attempts' = Append(attempts, part_path)
    /\ IF disk[k].mountable
       THEN /\ mounted' = mounted \cup {part_path}
            /\ pc' = "probe"
            /\ UNCHANGED <<k, error>>
       ELSE IF Catches("ProcessExecutionError")
       THEN /\ k' = NextIndex(k)
            /\ UNCHANGED <<mounted, pc, error>>
       ELSE /\ error' = "ProcessExecutionError"
            /\ pc' = "done"
            /\ UNCHANGED <<mounted, k>>
    /\ UNCHANGED <<caller, ports, ifaces, root_dev, disk, files, phase, v,
                   configs, path, listing, w, bodyError, thrown, yields, written,
                   purgeFailed, call, ret>>

\* partition_with_path, inside the mount: os.path.isdir(conf_path). Without the
\* directory the mount is left and the loop goes on; with it conf_path is
\* yielded. A generator that yields again after an error was thrown into it
\* makes contextlib raise RuntimeError("generator didn't stop after throw()");
\* the generator then stays suspended inside the mount until it is collected
\* (or is closed at once, by a contextlib that closes it).
ProbePartition ==
    /\ pc = "probe"
    /\ IF disk[k].target # "dir"
       THEN /\ mounted' = MountedExit(mounted, part_path)
            /\ k' = NextIndex(k)
            /\ pc' = "loop"
            /\ UNCHANGED <<path, phase, yields, error>>
       ELSE IF ~thrown
       THEN /\ path' = k
            /\ yields' = Append(yields, k)
            /\ pc' = IF caller = "write_netconfig" THEN "listdir" ELSE "work"
            /\ phase' = IF caller = "write_netconfig" THEN "Purging" ELSE "Working"
            /\ UNCHANGED <<mounted, k, error>>
       ELSE /\ yields' = Append(yields, k)
            /\ error' = "GeneratorDidntStop"
            /\ pc' = "done"
            /\ mounted' \in {mounted, MountedExit(mounted, part_path)}
            /\ UNCHANGED <<path, phase, k>>
    /\ UNCHANGED <<caller, ports, ifaces, root_dev, disk, files, v, configs,
                   listing, w, bodyError, thrown, attempts, written,
                   purgeFailed, call, ret>>

\* partition_with_path, after the loop: RuntimeError("No partition found ...").
NoPartitionFound ==
    /\ pc = "loop"
    /\ k > Len(disk)
    /\ error' = "NoPartitionFound"
    /\ pc' = "done"
    /\ UNCHANGED <<caller, ports, ifaces, root_dev, disk, files, phase, v,
                   configs, k, mounted, path, listing, w, bodyError, thrown, attempts,
                   yields, written,
                   purgeFailed, call, ret>>

\* Where write_netconfig stands once the purge loop has visited every name.
AfterPurge == IF Len(configs) = 0 THEN "exit" ELSE "write"

\* write_netconfig: os.listdir(path), which may fail with an OSError.
ListDir ==
    /\ pc = "listdir"
    /\ \/ /\ listing' = DOMAIN files[path]
          /\ pc' = IF listing' = {} THEN AfterPurge ELSE "purge"
          /\ phase' = IF pc' = "purge" THEN "Purging" ELSE "Writing"
          /\ w' = 1
          /\ UNCHANGED bodyError
       \/ /\ bodyError' = "OSError"
          /\ pc' = "throw"
          /\ UNCHANGED <<listing, phase, w>>
    /\ UNCHANGED <<caller, ports, ifaces, root_dev, disk, files, v, configs,
                   k, mounted, path, thrown, error, attempts, yields, written,
                   purgeFailed, call, ret>>

\* The directory without the file `name`.
Unlink(dir, name) == [n \in DOMAIN dir \ {name} |-> dir[n]]

\* A purge that unlinks every name it finds.
IsManagedAny(current) == TRUE

\* A purge that unlinks no name.
IsManagedNone(current) == FALSE

\* The test of the purge loop: current.startswith('ifcfg-').
IsManaged(current) == StartsWith(current, ifcfg)

\* An unlink whose OSError is raised (os.unlink).
UnlinkErrorRaised == FALSE

\* utils.unlink_without_raise swallows the OSError of an unlink that fails.
UnlinkErrorSwallowed == TRUE

\* write_netconfig, one round of the purge loop, in the order os.listdir gave:
\* a name starting with ifcfg- is unlinked, which may fail.
PurgeOne ==
    /\ pc = "purge"
    /\ \E current \in listing :
        \/ /\ listing' = listing \ {current}
           /\ files' = IF IsManaged(current)
                       THEN [files EXCEPT ![path] = Unlink(@, current)]
                       ELSE files
           /\ pc' = IF listing' = {} THEN AfterPurge ELSE "purge"
           /\ phase' = IF pc' = "purge" THEN "Purging" ELSE "Writing"
           /\ UNCHANGED <<purgeFailed, bodyError>>
        \/ /\ IsManaged(current)
           /\ purgeFailed' = purgeFailed \cup {current}
           /\ IF UnlinkErrorSwallowed
              THEN /\ listing' = listing \ {current}
                   /\ pc' = IF listing' = {} THEN AfterPurge ELSE "purge"
                   /\ phase' = IF pc' = "purge" THEN "Purging" ELSE "Writing"
                   /\ UNCHANGED bodyError
              ELSE /\ bodyError' = "OSError"
                   /\ pc' = "throw"
                   /\ UNCHANGED <<listing, phase>>
           /\ UNCHANGED files
    /\ UNCHANGED <<caller, ports, ifaces, root_dev, disk, v, configs, k,
                   mounted, path, w, thrown, error, attempts, yields, written,
                   call, ret>>

\* A write that leaves the content of a file that exists.
WriteFileKeep(dir, name, text) ==
    [n \in DOMAIN dir \cup {name} |-> IF n \in DOMAIN dir THEN dir[n] ELSE text]

\* The directory with `text` as the whole content of the file `name`.
WriteFile(dir, name, text) ==
    [n \in DOMAIN dir \cup {name} |-> IF n = name THEN text ELSE dir[n]]

\* A write loop that names the file after the device found when rendering.
DeviceForFileCached(cfg, ifs) == cfg.config.DEVICE

\* The device the write loop names the file after: find_device_by_mac is
\* called again, on the interfaces of that moment.
DeviceForFile(cfg, ifs) == find_device_by_mac(cfg.port.address, ifs)

\* write_netconfig, one round of the write loop: the device is resolved again,
\* and the file is opened with "wt" and written, which replaces its content.
\* The open may fail with an OSError.
WritePort ==
    /\ pc = "write"
    /\ w <= Len(configs)
    /\ LET dev == DeviceForFile(configs[w], ifaces)
           fname == ifcfg \o dev
       IN  IF dev = NoDevice
           THEN /\ bodyError' = "DeviceNotFound"
                /\ pc' = "throw"
                /\ UNCHANGED <<files, written, w>>
           ELSE \/ /\ bodyError' = "OSError"
                   /\ pc' = "throw"
                   /\ UNCHANGED <<files, written, w>>
                \/ /\ files' = [files EXCEPT
                                  ![path] = WriteFile(@, fname, configs[w].config)]
                   /\ written' = Append(written, fname)
                   /\ w' = w + 1
                   /\ pc' = IF w' > Len(configs) THEN "exit" ELSE "write"
                   /\ UNCHANGED bodyError
    /\ UNCHANGED <<caller, ports, ifaces, root_dev, disk, phase, v, configs,
                   k, mounted, path, listing, thrown, error, attempts, yields,
                   purgeFailed, call, ret>>

\* The body of another caller's `with partition_with_path(...)`: it returns, or
\* raises an error of any kind.
Work ==
    /\ pc = "work"
    /\ \/ /\ pc' = "exit"
          /\ UNCHANGED bodyError
       \/ /\ bodyError' \in BodyErrors
          /\ pc' = "throw"
    /\ UNCHANGED <<caller, ports, ifaces, root_dev, disk, files, phase, v,
                   configs, k, mounted, path, listing, w, thrown, error, attempts,
                   yields, written,
                   purgeFailed, call, ret>>

\* The body ended normally: the generator resumes after its yield, returns,
\* and leaves the mount.
ExitWith ==
    /\ pc = "exit"
    /\ mounted' = MountedExit(mounted, part_path)
    /\ pc' = "done"
    /\ phase' = "Done"
    /\ UNCHANGED <<caller, ports, ifaces, root_dev, disk, files, v, configs,
                   k, path, listing, w, bodyError, thrown, error, attempts, yields,
                   written,
                   purgeFailed, call, ret>>

\* The body raised: the error is thrown into the generator at its yield. It
\* leaves the mount, and then either the except clause catches it and the loop
\* goes on with the next partition, or it leaves the generator.
ThrowIntoGenerator ==
    /\ pc = "throw"
    /\ mounted' = MountedExit(mounted, part_path)
    /\ IF Catches(bodyError)
       THEN /\ thrown' = TRUE
            /\ k' = NextIndex(k)
            /\ pc' = "loop"
            /\ UNCHANGED error
       ELSE /\ error' = bodyError
            /\ pc' = "done"
            /\ UNCHANGED <<thrown, k>>
    /\ UNCHANGED <<caller, ports, ifaces, root_dev, disk, files, phase, v,
                   configs, path, listing, w, bodyError, attempts, yields, written,
                   purgeFailed, call, ret>>

Next ==
    \/ InterfacesChange
    \/ RenderPort
    \/ EnterPartitionWithPath
    \/ SkipPartition
    \/ MountPartition
    \/ ProbePartition
    \/ NoPartitionFound
    \/ ListDir
    \/ PurgeOne
    \/ WritePort
    \/ Work
    \/ ExitWith
    \/ ThrowIntoGenerator

Spec == Init /\ [][Next]_vars

\* The steps of the invocation itself, which the interpreter goes on taking
\* while one is possible.
Proceed ==
    \/ RenderPort
    \/ EnterPartitionWithPath
    \/ SkipPartition
    \/ MountPartition
    \/ ProbePartition
    \/ NoPartitionFound
    \/ ListDir
    \/ PurgeOne
    \/ WritePort
    \/ Work
    \/ ExitWith
    \/ ThrowIntoGenerator

SpecFair == Init /\ [][Next]_vars /\ WF_vars(Proceed)

\* partition_with_path on its own: some code other than write_netconfig enters
\* `with partition_with_path(...)`, on a disk of up to MaxScanParts partitions.
InitScan ==
    /\ caller = "other"
    /\ ports = <<>>
    /\ ifaces = <<>>
    /\ root_dev \in ScanRootDevs
    /\ disk \in ScanDisks
    /\ files = [i \in DOMAIN disk |-> InitialFiles(disk[i])]
    /\ pc = "enter"
    /\ phase = "Locating"
    /\ v = 1
    /\ configs = <<>>
    /\ k = 0
    /\ mounted = {}
    /\ path = 0
    /\ listing = {}
    /\ w = 0
    /\ bodyError = "none"
    /\ thrown = FALSE
    /\ error = "none"
    /\ attempts = <<>>
    /\ yields = <<>>
    /\ written = <<>>
    /\ purgeFailed = {}
    /\ call = <<>>
    /\ ret = <<>>

NextScan ==
    \/ EnterPartitionWithPath
    \/ SkipPartition
    \/ MountPartition
    \/ ProbePartition
    \/ NoPartitionFound
    \/ Work
    \/ ExitWith
    \/ ThrowIntoGenerator

SpecScan == InitScan /\ [][NextScan]_vars

\* The variables of an invocation, for a helper called on its own.
NoInvocation ==
    /\ caller = "other"
    /\ ports = <<>>
    /\ root_dev = sda
    /\ disk = <<>>
    /\ files = <<>>
    /\ phase = "Done"
    /\ v = 1
    /\ configs = <<>>
    /\ k = 0
    /\ mounted = {}
    /\ path = 0
    /\ listing = {}
    /\ w = 0
    /\ bodyError = "none"
    /\ thrown = FALSE
    /\ error = "none"
    /\ attempts = <<>>
    /\ yields = <<>>
    /\ written = <<>>
    /\ purgeFailed = {}

\* find_device_by_mac on its own: any MAC against any enumeration.
InitFind ==
    /\ NoInvocation
    /\ ifaces \in FindIfaces
    /\ call \in [fn : {"find_device_by_mac"}, mac : FindMacs]
    /\ ret = <<>>
    /\ pc = "call"

\* find_device_by_mac(mac): the device is returned, or the RuntimeError raised.
CallFindDevice ==
    /\ pc = "call"
    /\ call.fn = "find_device_by_mac"
    /\ ret' = find_device_by_mac(call.mac, ifaces)
    /\ error' = IF ret' = NoDevice THEN "DeviceNotFound" ELSE "none"
    /\ pc' = "done"
    /\ UNCHANGED <<caller, ports, ifaces, root_dev, disk, files, phase, v,
                   configs, k, mounted, path, listing, w, bodyError, thrown,
                   attempts, yields, written, purgeFailed, call>>

SpecFind == InitFind /\ [][CallFindDevice]_vars

\* partition_index_to_name on its own: any device with any index.
InitName ==
    /\ NoInvocation
    /\ ifaces = <<>>
    /\ call \in [fn : {"partition_index_to_name"}, device : NameDevs,
                  index : 0..MaxIndex]
    /\ ret = <<>>
    /\ pc = "call"

\* partition_index_to_name(device, index)
CallPartitionIndexToName ==
    /\ pc = "call"
    /\ call.fn = "partition_index_to_name"
    /\ ret' = partition_index_to_name(call.device, call.index)
    /\ pc' = "done"
    /\ UNCHANGED <<caller, ports, ifaces, root_dev, disk, files, phase, v,
                   configs, k, mounted, path, listing, w, bodyError, thrown, error,
                   attempts, yields, written, purgeFailed, call>>

SpecName == InitName /\ [][CallPartitionIndexToName]_vars

\* ------------------------------------------------------------ the claims

WN == caller = "write_netconfig"

\* No file of any partition differs from what the installation left.
AllUntouched == \A i \in DOMAIN disk : Untouched(i)

\* The partitions that are not flagged esp or lvm, mount, and hold the target
\* subdirectory as a directory.
GoodParts ==
    {i \in DOMAIN disk : /\ "esp" \notin disk[i].flags
                         /\ "lvm" \notin disk[i].flags
                         /\ disk[i].mountable
                         /\ disk[i].target = "dir"}

\* The device path of the partition the last mount attempt was made on.
LastAttempt == attempts[Len(attempts)]

\* C1: whenever write_netconfig fails while validating (a malformed CIDR, a MAC
\* that does not resolve) or while locating (no candidate partition mounts and
\* holds etc/sysconfig/network-scripts), no file of any partition has been
\* deleted, created or modified.
C1_PreWriteFailureTouchesNothing ==
    (/\ WN
     /\ pc = "done"
     /\ error # "none"
     /\ phase \in {"Validating", "Locating"} \/ error = "NoPartitionFound")
    => AllUntouched /\ written = <<>>

\* C1's case: the scan mounted a partition, found no directory anywhere it
\* could look, and failed, on a disk that does hold managed files.
C1_Witness ==
    /\ WN
    /\ pc = "done"
    /\ error = "NoPartitionFound"
    /\ \E i \in DOMAIN disk : disk[i].mountable /\ ~IsSkipped(disk[i])
    /\ \E i \in DOMAIN disk : disk[i].target = "dir"

\* Every port was rendered: its MAC resolved and its CIDR parsed.
ValidationPassed ==
    /\ Len(configs) = Len(ports)
    /\ \A j \in DOMAIN configs : configs[j].port = ports[j]

LastWriter(n) == Max({j \in DOMAIN written : written[j] = n})

\* Every port's rendered text was written, in port order, to a file named
\* ifcfg-<interface>, and each such file holds the text of the last port
\* written under its name.
EveryPortWritten ==
    /\ Len(written) = Len(ports)
    /\ \A j \in DOMAIN written :
        /\ StartsWith(written[j], ifcfg)
        /\ written[j] \in DOMAIN files[path]
        /\ files[path][written[j]] = configs[LastWriter(written[j])].config

C3_ResolveFailureTouchesNothing ==
    (WN /\ (bodyError = "DeviceNotFound" \/ error = "DeviceNotFound"))
    => /\ mounted = {}
       /\ attempts = <<>>
       /\ AllUntouched

\* C4: in write_netconfig every port is rendered before the first mount
\* attempt, the first deletion and the first write, and an invocation whose
\* rendering fails ends without any mount attempt.
C4_RenderedBeforeLocating ==
    WN =>
    /\ (attempts # <<>> \/ mounted # {} \/ ~AllUntouched \/ written # <<>>)
       => ValidationPassed
    /\ (pc = "done" /\ ~ValidationPassed)
       => /\ attempts = <<>>
          /\ error \in {"ValueError", "DeviceNotFound"}

\* C4's case: two ports were rendered, and then a partition was mounted and
\* a file written.
C4_Witness ==
    /\ WN
    /\ Len(ports) >= 2
    /\ attempts # <<>>
    /\ written # <<>>

\* C5: once the operation has ended, on whatever path, no partition it
\* mounted is still mounted.
C5_NoMountLeft == pc = "done" => mounted = {}

\* C6: at most one candidate partition is mounted at any time, it is the one
\* the loop is at, and it is unmounted before the loop goes to the next.
C6_AtMostOneMounted ==
    /\ Cardinality(mounted) <= 1
    /\ mounted # {} => k \in DOMAIN disk /\ mounted = {part_path}
    /\ pc = "loop" => mounted = {}

\* C6's case: a partition was mounted and left, and a later one is mounted.
C6_Witness ==
    /\ mounted # {}
    /\ \E i \in 1..(k - 1) : disk[i].mountable /\ ~IsSkipped(disk[i])

\* C7: the directory handed to the caller is on the first partition, in
\* listing order, that is not flagged esp or lvm, mounts, and holds the target
\* subdirectory; no file of any other partition is deleted or written.
C7_FirstGoodPartitionOnly ==
    /\ path # 0 => GoodParts # {} /\ path = Min(GoodParts)
    /\ \A i \in DOMAIN disk : i # path => Untouched(i)

\* C7's case: write_netconfig changed files on the second partition, and the
\* first one holds the directory too but is flagged or does not mount.
C7_Witness ==
    /\ WN
    /\ path = 2
    /\ ~Untouched(2)
    /\ disk[1].target = "dir"

\* C8: once a path has been yielded, no further partition is mounted and no
\* second path is yielded, whatever the caller's work ends with.
C8_OneYieldPerCall ==
    /\ Len(yields) <= 1
    /\ yields # <<>> =>
           LastAttempt = partition_index_to_name(root_dev, disk[yields[1]].number)

\* C9: an error the purge or the write of write_netconfig raises ends the
\* invocation and is surfaced as that same error; the scan is not resumed.
C9_BodyErrorSurfaced ==
    (WN /\ bodyError # "none")
    => /\ pc \in {"throw", "done"}
       /\ pc = "done" => error = bodyError
       /\ ~thrown
       /\ yields = <<path>>
       /\ LastAttempt = partition_index_to_name(root_dev, disk[path].number)

\* C9's case: the write failed with an OSError, the invocation ended with it,
\* and a later partition could have been tried.
C9_Witness ==
    /\ WN
    /\ pc = "done"
    /\ bodyError = "OSError"
    /\ \E i \in GoodParts : i > path

\* C10: a mount failure, or a mounted candidate without the target
\* subdirectory, does not end the operation: when the body raises nothing, the
\* operation ends with the first good candidate yielded if there is one, and
\* with the no-partition-found error otherwise.
C10_ScanRecovers ==
    (pc = "done" /\ phase # "Validating" /\ bodyError = "none")
    => IF GoodParts # {}
       THEN yields = <<Min(GoodParts)>> /\ error = "none"
       ELSE yields = <<>> /\ error = "NoPartitionFound"

\* C10's case: the mount of the first partition failed and the second
\* partition's path was yielded.
C10_Witness ==
    /\ pc = "done"
    /\ error = "none"
    /\ yields = <<2>>
    /\ ~disk[1].mountable
    /\ ~IsSkipped(disk[1])

\* The names beginning with ifcfg- that the located directory held when the
\* invocation began.
InitialManaged ==
    {n \in DOMAIN InitialFiles(disk[path]) : StartsWith(n, ifcfg)}

\* C11: in write_netconfig a file the purge cannot delete does not stop the
\* operation: no error is raised for it, the purge goes on to every other name
\* beginning with ifcfg- (each is visited: still to come, failed, or deleted),
\* any later error comes from the write step, and an invocation in which
\* nothing else fails ends successfully with every port's file written.
C11_PurgeFailureNotFatal ==
    (WN /\ purgeFailed # {})
    => /\ phase \in {"Purging", "Writing", "Done"}
       /\ phase = "Purging" => pc = "purge" /\ bodyError = "none"
       /\ bodyError # "none" => phase = "Writing" /\ listing = {}
       /\ \A n \in InitialManaged :
              \/ n \in listing
              \/ n \in purgeFailed
              \/ n \notin DOMAIN files[path]
              \/ n \in Range(written)
       /\ (pc = "done" /\ bodyError = "none")
          => error = "none" /\ EveryPortWritten

\* C11's case: the unlink of ifcfg-eth0 failed, ifcfg-eth9 was deleted all the
\* same, and the invocation went on to write a port's file and succeeded.
C11_Witness ==
    /\ WN
    /\ pc = "done"
    /\ error = "none"
    /\ purgeFailed = {oldEth0}
    /\ oldEth9 \notin DOMAIN files[path]
    /\ written # <<>>

\* The device path of partition i of the disk.
PathOf(i) == partition_index_to_name(root_dev, disk[i].number)

\* Whether the flags of partition i contain esp or lvm.
Flagged(i) == "esp" \in disk[i].flags \/ "lvm" \in disk[i].flags

RECURSIVE CandidatesFrom(_)
\* The device paths of the partitions from i on that are not flagged, in
\* listing order.
CandidatesFrom(i) ==
    IF i > Len(disk) THEN <<>>
    ELSE (IF Flagged(i) THEN <<>> ELSE <<PathOf(i)>>) \o CandidatesFrom(i + 1)

\* The candidate sequence of the disk.
Candidates == CandidatesFrom(1)

\* C12: for any partition list and flag sets, a partition whose flags contain
\* esp or lvm is never mounted nor mount-attempted, and the mount attempts made
\* so far are, in order, the first of the remaining partitions in listing
\* order; a scan that finds nothing has attempted all of them.
C12_FlaggedNeverMountedOrderKept ==
    /\ \A i \in DOMAIN disk :
           Flagged(i) => PathOf(i) \notin Range(attempts) /\ PathOf(i) \notin mounted
    /\ Len(attempts) <= Len(Candidates)
    /\ attempts = SubSeq(Candidates, 1, Len(attempts))
    /\ (pc = "done" /\ error = "NoPartitionFound") => attempts = Candidates

\* C12's case: partitions 1 {esp}, 2 {}, 3 {lvm} on /dev/sda, the scan over:
\* /dev/sda2 is the only mount attempt.
C12_Witness ==
    /\ root_dev = sda
    /\ Len(disk) = 3
    /\ "esp" \in disk[1].flags
    /\ disk[2].flags = {}
    /\ "lvm" \in disk[3].flags
    /\ pc = "done"
    /\ attempts = <<sda \o <<"2">>>>

\* Two strings that differ at most in the case of their letters.
SameIgnoringCase(a, b) ==
    /\ Len(a) = Len(b)
    /\ \A n \in DOMAIN a : LowerChar(a[n]) = LowerChar(b[n])

\* Whether interface i of the enumeration has a link-layer address that is
\* the MAC asked for, case aside.
HasMac(i) == \E a \in Range(ifaces[i].addrs) : SameIgnoringCase(a, call.mac)

\* C13: find_device_by_mac returns the name of the first interface, in
\* enumeration order, one of whose link-layer addresses is the requested MAC
\* under case-insensitive comparison, and fails with the device-not-found
\* error exactly when no interface has such an address.
C13_FirstMatchIgnoringCase ==
    (pc = "done" /\ call # <<>> /\ call.fn = "find_device_by_mac")
    => IF \E i \in DOMAIN ifaces : HasMac(i)
       THEN /\ error = "none"
            /\ \E i \in DOMAIN ifaces :
                   /\ HasMac(i)
                   /\ \A j \in 1..(i - 1) : ~HasMac(j)
                   /\ ret = ifaces[i].name
       ELSE /\ error = "DeviceNotFound"
            /\ ret = NoDevice

\* C13's case: two interfaces carry the MAC, in a case other than the one
\* asked for, and the name of the first was returned.
C13_Witness ==
    /\ pc = "done"
    /\ call # <<>>
    /\ call.fn = "find_device_by_mac"
    /\ Len(ifaces) = 2
    /\ HasMac(1)
    /\ HasMac(2)
    /\ call.mac \notin Range(ifaces[1].addrs)
    /\ ret = ifaces[1].name

\* Whether the letters n, v, m, e stand next to each other somewhere in d.
HasNvme(d) ==
    \E i \in 1..(Len(d) - 3) :
        d[i] = "n" /\ d[i + 1] = "v" /\ d[i + 2] = "m" /\ d[i + 3] = "e"

DecimalDigits == {"0", "1", "2", "3", "4", "5", "6", "7", "8", "9"}

\* The number a decimal digit stands for.
DigitValue(c) == CHOOSE d \in 0..9 : Digit(d) = c

RECURSIVE DecimalValue(_)
\* The number a non-empty string of decimal digits stands for.
DecimalValue(t) ==
    IF Len(t) = 1 THEN DigitValue(t[1])
    ELSE 10 * DecimalValue(SubSeq(t, 1, Len(t) - 1)) + DigitValue(t[Len(t)])

\* C14: partition_index_to_name returns the device name, then the separator p
\* exactly when the device name contains nvme, then the index in decimal, for
\* every non-negative index.
C14_NvmeSeparator ==
    (pc = "done" /\ call # <<>> /\ call.fn = "partition_index_to_name")
    => LET d == call.device
           sep == IF HasNvme(d) THEN <<"p">> ELSE <<>>
           t == SubSeq(ret, Len(d) + Len(sep) + 1, Len(ret))
       IN  /\ Len(ret) > Len(d) + Len(sep)
           /\ SubSeq(ret, 1, Len(d)) = d
           /\ SubSeq(ret, Len(d) + 1, Len(d) + Len(sep)) = sep
           /\ Range(t) \subseteq DecimalDigits
           /\ Len(t) > 1 => t[1] # "0"
           /\ DecimalValue(t) = call.index

\* C14's case: root /dev/nvme0n1 and index 2 gave /dev/nvme0n1p2.
C14_Witness ==
    /\ pc = "done"
    /\ call # <<>>
    /\ call.fn = "partition_index_to_name"
    /\ call.device = nvme0n1
    /\ call.index = 2
    /\ ret = nvme0n1 \o <<"p", "2">>

\* C15: whenever the write step writes a port's file, the file is named
\* ifcfg-<interface> after the interface the port's MAC resolves to in the
\* enumeration of that moment, and its content is the text rendered for that
\* port during validation, which is left as it was rendered.
C15_NameResolvedAtWriteTime ==
    [][written' # written =>
        LET j == Len(written') IN
        /\ written' = Append(written, written'[j])
        /\ written'[j] = ifcfg \o find_device_by_mac(ports[j].address, ifaces)
        /\ files'[path][written'[j]] = configs[j].config
        /\ configs' = configs
        /\ configs[j].port = ports[j]]_vars

\* C15's case: the enumeration changed between validation and write, and a
\* port's file carries the new interface name while its text names the old.
C15_Witness ==
    /\ WN
    /\ pc = "done"
    /\ error = "none"
    /\ \E j \in DOMAIN written :
        /\ written[j] # ifcfg \o configs[j].config.DEVICE
        /\ files[path][written[j]].DEVICE = configs[j].config.DEVICE

\* C16: every invocation ends; no partition is mount-attempted twice, nor more
\* attempts made than the listing has partitions; and an invocation that has
\* scanned a disk where no candidate both mounts and holds the target
\* subdirectory has ended with the no-partition-found error.
C16_SingleLinearScan ==
    /\ [](\A i, j \in DOMAIN attempts : attempts[i] = attempts[j] => i = j)
    /\ [](Len(attempts) <= Len(disk))
    /\ []((pc = "done" /\ phase # "Validating" /\ GoodParts = {})
          => error = "NoPartitionFound")
    /\ <>(pc = "done")

\* C16's case: the scan attempted two partitions, neither was good, and the
\* invocation ended with the no-partition-found error.
C16_Witness ==
    /\ pc = "done"
    /\ error = "NoPartitionFound"
    /\ Len(attempts) = 2
    /\ GoodParts = {}

\* The names of a directory that do not begin with ifcfg-.
Unmanaged(dir) == {n \in DOMAIN dir : ~StartsWith(n, ifcfg)}

C18_ManagedFilesAreTheWritten ==
    (WN /\ pc = "done" /\ error = "none" /\ purgeFailed = {})
    => /\ path # 0
       /\ {n \in DOMAIN files[path] : StartsWith(n, ifcfg)} = Range(written)

\* C18's case: a directory that held ifcfg-eth0 and ifcfg-eth9 holds, after a
\* success with two ports and no failed unlink, ifcfg-eth0 and ifcfg-eth1.
C18_Witness ==
    /\ WN
    /\ pc = "done"
    /\ error = "none"
    /\ purgeFailed = {}
    /\ InitialManaged = {oldEth0, oldEth9}
    /\ Range(written) = {ifcfg \o eth0, ifcfg \o eth1}

====
